---------------------------- MODULE Spec2Model ----------------------------
(***************************************************************************)
(* Model of src/components/PulseControl.tsx: the pulse trajectory          *)
(* generator of PulseControl (rotate, project, the single pulse loop and   *)
(* the three-leg composite sequence), the transport phase engine of        *)
(* TransportSimulation (the requestAnimationFrame loop `animate`, its      *)
(* mount effect and its cleanup) and the chart data generators; and of     *)
(* src/components/GeminiChat.tsx with src/services/geminiService.ts: the   *)
(* send handler and the streamed response.                                 *)
(*                                                                         *)
(* Numbers.  The code computes in IEEE doubles.  The model computes        *)
(*  - angles as integer counts of pi/HalfTurn radians (every angle the     *)
(*    pulse code builds from a slider value k/100 is such a count);        *)
(*  - sines and cosines in fixed point, FX = 1 (Taylor polynomials, the    *)
(*    error is below 2/FX);                                                *)
(*  - sphere coordinates in units of 1/VS pixel;                           *)
(*  - times in integer milliseconds, all of them multiples of Tick, so     *)
(*    that t = elapsed/totalDuration and the powers are exact rationals:   *)
(*    a power p is held as the integer p * RampMs, the position x as       *)
(*    x * XDen.                                                            *)
(***************************************************************************)
EXTENDS Integers, Sequences, FiniteSets

VARIABLES
    \* ---- PulseControl ----
    errorRate,        \* useState errorRate, in hundredths: -20 .. 20
    drawnError,       \* the errorRate the [errorRate] effect last ran with (NotDrawn: none)
    simplePoints,     \* the single-pulse polyline (screen points)
    currentSimple,    \* the vector the single-pulse loop ends with
    scrofulousPoints, \* the composite polyline (screen points)
    currentScrof,     \* the vector the composite sequence ends with
    svgPaths,         \* the trajectory paths the svg holds, in document order
    \* ---- TransportSimulation ----
    mounted,          \* the main effect has run and its cleanup has not
    runs,             \* how many times the main effect has run
    now,              \* the host clock, ms
    startTime,        \* `let startTime` of the running effect closure
    animationRef,     \* animationRef.current (0 = null)
    rafPending,       \* handles of the requested, not yet fired or cancelled frames
    frameNo,          \* frames animate has run in this run: 0, 1, 2 (= more)
    firstTs,          \* timestamp of the first frame of this run (-1: none yet)
    steady,           \* every frame step of this run was shorter than the shortest phase
    elapsed,          \* `elapsed` of the last frame, ms
    stage,            \* `stage` of the last frame
    slmPower,         \* `slmPower` of the last frame, times RampMs
    aodPower,         \* `aodPower` of the last frame, times RampMs
    x,                \* `x` of the last frame, times XDen
    slmX,             \* `slmX` of the last frame, the cx of the SLM well
    aodX,             \* the cx of the AOD well after the last frame, times XDen
    ringAngle,        \* the phaseRing rotation of the last frame, degrees
    phase,            \* useState phase
    dataSLM,          \* the SLM waveform polyline of the last frame
    dataAOD,          \* the AOD waveform polyline of the last frame
    markerExists,     \* graphG holds a .time-marker line
    markerX,          \* its x1/x2 attribute, times 80 (-1: never set)
    pathMap,          \* the paths drawn in the 2D inset
    \* ---- the charts ----
    decayArgs,        \* the arguments of the last generateDecayData call (None: no call yet)
    decayData,        \* what it returned
    rbMode,           \* useState mode of RBChart
    rbData,           \* `data` of the last render of RBChart (<<>>: not rendered yet)
    \* ---- rotate ----
    rotV,             \* the vector of the last rotate call
    rotAxis,          \* its axisAngle
    rotTheta,         \* its theta
    rotOut,           \* what it returned
    rotDepth,         \* how many calls have been chained, each on the last one's result
    rotNorm2,         \* the squared magnitude of the vector the chain started from
    \* ---- GeminiChat ----
    messages,         \* useState messages: records of role and text
    input,            \* useState input
    isLoading,        \* useState isLoading
    requests,         \* the streamGeminiResponse calls handleSend has not resumed from
    lastSend          \* how the last handleSend call went: "returned" at its guard, or "sent"

pulseVars == <<errorRate, drawnError, simplePoints, currentSimple,
               scrofulousPoints, currentScrof, svgPaths>>
frameVars == <<elapsed, stage, slmPower, aodPower, x, slmX, aodX, ringAngle, phase,
               dataSLM, dataAOD, markerExists, markerX>>
loopVars == <<mounted, runs, now, startTime, animationRef, rafPending,
              frameNo, firstTs, steady, pathMap>>
chartVars == <<decayArgs, decayData, rbMode, rbData>>
rotVars == <<rotV, rotAxis, rotTheta, rotOut, rotDepth, rotNorm2>>
chatVars == <<messages, input, isLoading, requests, lastSend>>
vars == <<pulseVars, frameVars, loopVars, chartVars, rotVars, chatVars>>

---------------------------------------------------------------------------
(* Fixed point *)

\* the value 1 of a sine, a cosine or an angle in radians
FX == 10 ^ 4
\* sphere coordinates are held in 1/VS pixel
VS == 10 ^ 2
\* Math.PI, times FX
PiFx == 31416
\* pi radians in angle units
HalfTurn == 3 * 10 ^ 4

\* the element of a one-element set: The({e}) is e, evaluated once
The(S) == CHOOSE v \in S : TRUE

\* a / d rounded to the nearest integer (d > 0)
RoundDiv(a, d) == (2 * a + d) \div (2 * d)

\* Math.sin for 0 <= r <= pi/2 (r in radians times FX)
SinR(r) ==
    LET y  == RoundDiv(r * r, FX)
        t4 == FX - RoundDiv(y, 72)
        t3 == FX - RoundDiv(y * t4, 42 * FX)
        t2 == FX - RoundDiv(y * t3, 20 * FX)
        t1 == FX - RoundDiv(y * t2, 6 * FX)
    IN  RoundDiv(r * t1, FX)

\* Math.cos for 0 <= r <= pi/2 (r in radians times FX)
CosR(r) ==
    LET y  == RoundDiv(r * r, FX)
        t4 == FX - RoundDiv(y, 90)
        t3 == FX - RoundDiv(y * t4, 56 * FX)
        t2 == FX - RoundDiv(y * t3, 30 * FX)
        t1 == FX - RoundDiv(y * t2, 12 * FX)
    IN  FX - RoundDiv(y * t1, 2 * FX)

\* Math.sin of n angle units, any integer n
SinU(n) ==
    LET m == n % (2 * HalfTurn)
        h == IF m >= HalfTurn THEN m - HalfTurn ELSE m
        q == IF 2 * h > HalfTurn THEN HalfTurn - h ELSE h
        v == SinR(RoundDiv(PiFx * q, HalfTurn))
    IN  IF m >= HalfTurn THEN 0 - v ELSE v

\* Math.cos of n angle units, any integer n
CosU(n) == SinU(n + HalfTurn \div 2)


---------------------------------------------------------------------------
(* PulseControl: geometry *)

width == 500
height == 400
radius == 120
centerX == (width * VS) \div 2
centerY == (height * VS) \div 2
\* const tilt = 0.4, const rot = 0.5 (radians times FX)
tilt == 4000
rot == 5000
\* the slider: min -0.2, max 0.2, step 0.01, in hundredths
ErrorRates == -20 .. 20

\* d degrees in angle units: d * toRad
Deg(d) == (d * HalfTurn) \div 180

\* project: rotate the view around Y by rot, tilt it around X, translate
project(v) ==
    LET x1 == RoundDiv(v.x * CosR(rot) - v.z * SinR(rot), FX)
        z1 == RoundDiv(v.x * SinR(rot) + v.z * CosR(rot), FX)
        y2 == RoundDiv(v.y * CosR(tilt) - z1 * SinR(tilt), FX)
    IN  [cx |-> centerX + x1, cy |-> centerY + y2]

startVec == [x |-> 0, y |-> 0 - radius * VS, z |-> 0]
\* the pole opposite the start vector, labelled |1> by drawSphere
targetPole == [x |-> 0, y |-> radius * VS, z |-> 0]

\* rotate with the cosine and the sine of theta exchanged
rotateSwapped(v, axisAngle, theta) ==
    LET ax == CosU(axisAngle)
        az == SinU(axisAngle)
        c == SinU(theta)
        s == CosU(theta)
        dot == RoundDiv(v.x * ax + v.z * az, FX)
        crossX == RoundDiv((0 - az) * v.y, FX)
        crossY == RoundDiv(az * v.x - ax * v.z, FX)
        crossZ == RoundDiv(ax * v.y, FX)
    IN  [x |-> RoundDiv(v.x * c + crossX * s, FX)
                 + RoundDiv(RoundDiv(ax * dot, FX) * (FX - c), FX),
         y |-> RoundDiv(v.y * c + crossY * s, FX),
         z |-> RoundDiv(v.z * c + crossZ * s, FX)
                 + RoundDiv(RoundDiv(az * dot, FX) * (FX - c), FX)]

\* rotate without the axis-parallel term axis * dot * (1 - c)
rotateNoAxisTerm(v, axisAngle, theta) ==
    LET ax == CosU(axisAngle)
        az == SinU(axisAngle)
        c == CosU(theta)
        s == SinU(theta)
        crossX == RoundDiv((0 - az) * v.y, FX)
        crossY == RoundDiv(az * v.x - ax * v.z, FX)
        crossZ == RoundDiv(ax * v.y, FX)
    IN  [x |-> RoundDiv(v.x * c + crossX * s, FX),
         y |-> RoundDiv(v.y * c + crossY * s, FX),
         z |-> RoundDiv(v.z * c + crossZ * s, FX)]

\* rotate: Rodrigues rotation of v by theta about the axis
\* (cos axisAngle, 0, sin axisAngle); both angles in angle units
rotate(v, axisAngle, theta) ==
    LET ax == CosU(axisAngle)
        az == SinU(axisAngle)
        c == CosU(theta)
        s == SinU(theta)
        dot == RoundDiv(v.x * ax + v.z * az, FX)
        crossX == RoundDiv((0 - az) * v.y, FX)
        crossY == RoundDiv(az * v.x - ax * v.z, FX)
        crossZ == RoundDiv(ax * v.y, FX)
    IN  [x |-> RoundDiv(v.x * c + crossX * s, FX)
                 + RoundDiv(RoundDiv(ax * dot, FX) * (FX - c), FX),
         y |-> RoundDiv(v.y * c + crossY * s, FX),
         z |-> RoundDiv(v.z * c + crossZ * s, FX)
                 + RoundDiv(RoundDiv(az * dot, FX) * (FX - c), FX)]

---------------------------------------------------------------------------
(* PulseControl: the two trajectories *)

simpleSteps == 20
\* Math.PI * (1 + errorRate), in angle units
simpleTotalAngle(e) == (HalfTurn * (100 + e)) \div 100

\* for(let i=0; i<=simpleSteps; i++): push project(currentSimple), then
\* currentSimple = rotate(startVec, 0, simpleTotalAngle * (i/simpleSteps))
RECURSIVE SimpleLoop(_, _, _, _)
SimpleLoop(i, cur, pts, e) ==
    IF i > simpleSteps
    THEN [points |-> pts, current |-> cur]
    ELSE SimpleLoop(i + 1,
                    rotate(startVec, 0,
                           RoundDiv(simpleTotalAngle(e) * i, simpleSteps)),
                    Append(pts, project(cur)),
                    e)

SimplePulse(e) == SimpleLoop(0, startVec, <<>>, e)

\* theta1 = theta3 = 180 * toRad * scale, theta2 = 360 * toRad * scale
theta1(e) == (Deg(180) * (100 + e)) \div 100
theta2(e) == (Deg(360) * (100 + e)) \div 100
theta3(e) == (Deg(180) * (100 + e)) \div 100
phi1 == Deg(60)
phi2 == Deg(300)
phi3 == Deg(60)

\* addPath: for(let i=1; i<=steps; i++) curr = rotate(start, axisPhase,
\* angle * (i/steps)); push project(curr).  Returns curr and the points.
RECURSIVE AddPathLoop(_, _, _, _, _, _, _)
AddPathLoop(i, steps, angle, axisPhase, start, curr, pts) ==
    IF i > steps
    THEN [points |-> pts, current |-> curr]
    ELSE The({AddPathLoop(i + 1, steps, angle, axisPhase, start, nxt,
                          Append(pts, project(nxt))) :
                 nxt \in {rotate(start, axisPhase, RoundDiv(angle * i, steps))}})

addPath(steps, angle, axisPhase, start, pts) ==
    AddPathLoop(1, steps, angle, axisPhase, start, start, pts)

\* the composite sequence with every leg started from startVec
ScrofulousPulseRestarted(e) ==
    The({addPath(15, theta3(e), phi3, startVec, leg2.points) :
            leg2 \in {addPath(25, theta2(e), phi2, startVec, leg1.points) :
                         leg1 \in {addPath(15, theta1(e), phi1, startVec,
                                            <<project(startVec)>>)}}})

\* the composite sequence: the start point, then Pulse 1, 2, 3, each from
\* the vector the previous one returned
ScrofulousPulse(e) ==
    The({addPath(15, theta3(e), phi3, leg2.current, leg2.points) :
            leg2 \in {addPath(25, theta2(e), phi2, leg1.current, leg1.points) :
                         leg1 \in {addPath(15, theta1(e), phi1, startVec,
                                            <<project(startVec)>>)}}})

\* the endpoint markers
endSimple == simplePoints[Len(simplePoints)]
endScrof == scrofulousPoints[Len(scrofulousPoints)]

\* squared magnitude of a sphere vector, in (1/VS pixel)^2
Norm2(v) == v.x * v.x + v.y * v.y + v.z * v.z

\* squared distance of two sphere vectors, in (1/VS pixel)^2
Dist2(a, b) ==
    (a.x - b.x) * (a.x - b.x) + (a.y - b.y) * (a.y - b.y)
        + (a.z - b.z) * (a.z - b.z)

\* squared distance of two screen points, in (1/VS pixel)^2
ScreenDist2(p, q) ==
    (p.cx - q.cx) * (p.cx - q.cx) + (p.cy - q.cy) * (p.cy - q.cy)

---------------------------------------------------------------------------
(* PulseControl: the slider and the [errorRate] effect *)

\* what one run of the effect body builds from errorRate = e / 100, for
\* every slider value (the body is a function of errorRate alone)
Generated ==
    [e \in ErrorRates |-> [simple |-> SimplePulse(e), scrof |-> ScrofulousPulse(e)]]

\* drawnError before the effect has run
NotDrawn == 0 - 100

\* a render (the first one, or one that changed errorRate) whose effect has
\* not run yet
effectPending == drawnError # errorRate

\* the effect drawing over what the svg already holds
KeptSvg(paths) == paths
\* svg.selectAll("*").remove()
ClearedSvg(paths) == <<>>

\* useState(0), rendered, the effect of the first render still to run
PulseInit ==
    /\ errorRate = 0
    /\ drawnError = NotDrawn
    /\ simplePoints = <<>>
    /\ currentSimple = startVec
    /\ scrofulousPoints = <<>>
    /\ currentScrof = startVec
    /\ svgPaths = <<>>

\* onChange of the range input: setErrorRate(parseFloat(e.target.value)).
\* React runs the pending effect before it handles the next event.
SetErrorRate(k) ==
    /\ ~effectPending
    /\ k # errorRate
    /\ errorRate' = k
    /\ UNCHANGED <<drawnError, simplePoints, currentSimple, scrofulousPoints,
                   currentScrof, svgPaths>>

\* useEffect(..., [errorRate]), after the first render and after every
\* render that changed errorRate: svg.selectAll("*").remove(), then both
\* polylines are built into fresh arrays from the current errorRate
RunEffect ==
    /\ effectPending
    /\ drawnError' = errorRate
    /\ simplePoints' = Generated[errorRate].simple.points
    /\ currentSimple' = Generated[errorRate].simple.current
    /\ scrofulousPoints' = Generated[errorRate].scrof.points
    /\ currentScrof' = Generated[errorRate].scrof.current
    /\ svgPaths' = ClearedSvg(svgPaths)
                       \o <<Generated[errorRate].simple.points,
                            Generated[errorRate].scrof.points>>
    /\ UNCHANGED errorRate

---------------------------------------------------------------------------
(* TransportSimulation: the schedule of one frame *)

startX == 100
endX == 700
totalDuration == 8000
graphPoints == 100

\* every timestamp of the model is a multiple of Tick milliseconds
Tick == totalDuration \div 40
\* 0.15 of the cycle, in ms: a power p is held as p * RampMs
RampMs == (15 * totalDuration) \div 100
\* half of the Transport phase (0.6 of the cycle), in ticks
HalfSteps == ((60 * totalDuration) \div 200) \div Tick
\* a position x is held as x * XDen
XDen == HalfSteps * HalfSteps * HalfSteps
\* the marker coordinate currentTimeX is held as currentTimeX * MarkerDen
MarkerDen == totalDuration \div 100

HandoverStart == "Handover (SLM -> AOD)"
TransportStage == "Diagonal Transport"
HandoverEnd == "Handover (AOD -> SLM)"
ResetStage == "Resetting..."

\* t < h/100, for t = el / totalDuration
TLess(el, h) == el * 100 < h * totalDuration

\* StageAt with `t < 0.9` mistyped as `t < 0.75`: no frame is a Handover (AOD -> SLM)
StageAtSkipsEnd(el) ==
    IF TLess(el, 15) THEN HandoverStart
    ELSE IF TLess(el, 75) THEN TransportStage
    ELSE IF TLess(el, 75) THEN HandoverEnd
    ELSE ResetStage

\* StageAt with `t <= 0.15` for `t < 0.15`
StageAtInclusive(el) ==
    IF el * 100 <= 15 * totalDuration THEN HandoverStart
    ELSE IF TLess(el, 75) THEN TransportStage
    ELSE IF TLess(el, 90) THEN HandoverEnd
    ELSE ResetStage

\* the stage of the if-chain on t
StageAt(el) ==
    IF TLess(el, 15) THEN HandoverStart
    ELSE IF TLess(el, 75) THEN TransportStage
    ELSE IF TLess(el, 90) THEN HandoverEnd
    ELSE ResetStage

\* SubTStart with the ramp stretched over twice its phase: t / 0.3
SubTStartSlow(el) == el \div 2
\* subT * RampMs of the two handover branches: t / 0.15, (t - 0.75) / 0.15
SubTStart(el) == el
\* SubTEnd with the phase offset forgotten: t / 0.15
SubTEndAbsolute(el) == el
SubTEnd(el) == el - (75 * totalDuration) \div 100

\* slmPower as the live graph plots it: 0 in the Reset phase
SlmPowerAtAsPlotted(el) ==
    IF TLess(el, 15) THEN RampMs - SubTStart(el)
    ELSE IF TLess(el, 75) THEN 0
    ELSE IF TLess(el, 90) THEN SubTEnd(el)
    ELSE 0

\* let slmPower of the four branches
SlmPowerAt(el) ==
    IF TLess(el, 15) THEN RampMs - SubTStart(el)
    ELSE IF TLess(el, 75) THEN 0
    ELSE IF TLess(el, 90) THEN SubTEnd(el)
    ELSE RampMs

AodPowerAt(el) ==
    IF TLess(el, 15) THEN SubTStart(el)
    ELSE IF TLess(el, 75) THEN RampMs
    ELSE IF TLess(el, 90) THEN RampMs - SubTEnd(el)
    ELSE 0

\* EaseTravel with the `+ 2` of the second half of the easing left out
EaseTravelNoOffset(el) ==
    LET g == (el - RampMs) \div Tick
        h == g - 2 * HalfSteps
    IN  IF g <= HalfSteps
        THEN ((endX - startX) * g * g * g) \div 2
        ELSE ((endX - startX) * (h * h * h)) \div 2

\* (endX - startX) * d3.easeCubicInOut(subT) * XDen, subT = (t - 0.15) / 0.6:
\* ((t *= 2) <= 1 ? t * t * t : (t -= 2) * t * t + 2) / 2, with t = g / HalfSteps
EaseTravel(el) ==
    LET g == (el - RampMs) \div Tick
        h == g - 2 * HalfSteps
    IN  IF g <= HalfSteps
        THEN ((endX - startX) * g * g * g) \div 2
        ELSE ((endX - startX) * (h * h * h + 2 * XDen)) \div 2

\* XAt with the Reset branch leaving the particle where the transport ended
XAtResetAtEnd(el) ==
    IF TLess(el, 15) THEN startX * XDen
    ELSE IF TLess(el, 75) THEN startX * XDen + EaseTravel(el)
    ELSE endX * XDen

\* const x of the four branches
XAt(el) ==
    IF TLess(el, 15) THEN startX * XDen
    ELSE IF TLess(el, 75) THEN startX * XDen + EaseTravel(el)
    ELSE IF TLess(el, 90) THEN endX * XDen
    ELSE startX * XDen

\* const slmX = t > 0.5 ? endX : startX
SlmXAt(el) == IF 2 * el > totalDuration THEN endX ELSE startX

\* aodWell.attr("cx", x)
AodWellAt(px) == px

\* the marker coordinate taken over a graph 600 wide
CurrentTimeXNarrow(el) == (el * 600 * MarkerDen) \div totalDuration
\* const currentTimeX = (elapsed / totalDuration) * 700, times MarkerDen
CurrentTimeX(el) == (el * 700 * MarkerDen) \div totalDuration

\* where a line whose x1/x2 hold mx is drawn: an attribute never set is 0
MarkerAt(mx) == IF mx = -1 THEN 0 ELSE mx

\* the live graph: gpS and gpA (times RampMs) of sample i, gt = i / graphPoints
GtLess(i, h) == i * 100 < h * graphPoints
GtRampStart(i) == (i * totalDuration) \div graphPoints
GtRampEnd(i) == (i * totalDuration) \div graphPoints - (75 * totalDuration) \div 100

GpS(i) ==
    IF GtLess(i, 15) THEN RampMs - GtRampStart(i)
    ELSE IF GtLess(i, 75) THEN 0
    ELSE IF GtLess(i, 90) THEN GtRampEnd(i)
    ELSE 0

GpA(i) ==
    IF GtLess(i, 15) THEN GtRampStart(i)
    ELSE IF GtLess(i, 75) THEN RampMs
    ELSE IF GtLess(i, 90) THEN RampMs - GtRampEnd(i)
    ELSE 0

\* a pushed point [gt * 700, 100 - gp * 90]: gx = gt * 700, gy = 2nd * RampMs
GraphPoint(i, gp) ==
    [gx |-> (i * 700) \div graphPoints, gy |-> 100 * RampMs - 90 * gp]

WaveSLM == [j \in 1 .. graphPoints |-> GraphPoint(j - 1, GpS(j - 1))]
WaveAOD == [j \in 1 .. graphPoints |-> GraphPoint(j - 1, GpA(j - 1))]

\* the amplitude gp (times RampMs) a plotted point stands for
Amplitude(pt) == (100 * RampMs - pt.gy) \div 90

\* the paths the 2D inset draws: pathStraight and pathDiagonal
InsetPaths == {"Straight", "Diagonal"}

---------------------------------------------------------------------------
(* TransportSimulation: the animation loop *)

\* the clock stops at MaxTicks ticks
MaxTicks == 50
MaxNow == MaxTicks * Tick
\* two frames are at most MaxStep ticks apart
MaxStep == 5
\* the view is mounted at most MaxRuns times
MaxRuns == 2

\* the shortest phase, Reset: 0.1 of the cycle, in ms
ShortestPhase == (10 * totalDuration) \div 100

\* if (!startTime) startTime = timestamp
StartOf(st, ts) == IF st = 0 THEN ts ELSE st

\* const elapsed = (timestamp - startTime) % totalDuration
ElapsedOf(ts, st) == (ts - st) % totalDuration

\* startTime kept across runs (held outside the effect closure)
CarriedStartTime(prev) == prev
\* let startTime = 0, declared by each run of the effect
FreshStartTime(prev) == 0

\* cancelAnimationFrame(handle)
CancelFrame(pending, handle) == pending \ {handle}

\* the handle requestAnimationFrame returns.  The host numbers its requests
\* upwards; the code only stores a handle and hands it back, so the model
\* keeps what matters of it: it differs from every handle that is pending
\* or stored.
FreshHandle(pending, ref) ==
    CHOOSE h \in 1 .. Cardinality(pending) + 2 : h \notin pending \cup {ref}

\* animate requesting its next frame without storing the handle
DroppedHandle(old, new) == old
\* what requestAnimationFrame(animate) leaves in animationRef.current
StoredHandle(old, new) == new

TransportInit ==
    /\ mounted = FALSE
    /\ runs = 0
    /\ now = 0
    /\ startTime = 0
    /\ animationRef = 0
    /\ rafPending = {}
    /\ frameNo = 0
    /\ firstTs = -1
    /\ steady = TRUE
    /\ elapsed = 0
    /\ stage = ""
    /\ slmPower = 0
    /\ aodPower = 0
    /\ x = startX * XDen
    /\ slmX = startX
    /\ aodX = startX * XDen
    /\ ringAngle = 0
    /\ phase = "Handover"
    /\ dataSLM = <<>>
    /\ dataAOD = <<>>
    /\ markerExists = FALSE
    /\ markerX = -1
    /\ pathMap = {}

\* the component mounts, d ticks after the last event: both effects run.
\* The inset draws its two paths; the main effect empties the svg, builds
\* the scene, declares `let startTime = 0` and requests the first frame.
Mount(d) ==
    /\ ~mounted
    /\ runs < MaxRuns
    /\ now + d * Tick <= MaxNow
    /\ now' = now + d * Tick
    /\ mounted' = TRUE
    /\ runs' = runs + 1
    /\ pathMap' = InsetPaths
    /\ startTime' = FreshStartTime(startTime)
    /\ animationRef' = FreshHandle(rafPending, animationRef)
    /\ rafPending' = rafPending \cup {FreshHandle(rafPending, animationRef)}
    /\ frameNo' = 0
    /\ firstTs' = -1
    /\ steady' = TRUE
    /\ elapsed' = 0
    /\ stage' = ""
    /\ slmPower' = 0
    /\ aodPower' = 0
    /\ x' = startX * XDen
    /\ slmX' = startX
    /\ aodX' = startX * XDen
    /\ ringAngle' = 0
    /\ phase' = "Handover"
    /\ dataSLM' = <<>>
    /\ dataAOD' = <<>>
    /\ markerExists' = FALSE
    /\ markerX' = -1

\* the host fires a requested frame d ticks after the last event: animate(ts).
\* Only the first frame of a run may fire in the tick the effect ran in.
Frame(d) ==
    /\ rafPending # {}
    /\ d = 0 => frameNo = 0
    /\ now + d * Tick <= MaxNow
    /\ \E id \in rafPending :
        LET ts == now + d * Tick
            st == StartOf(startTime, ts)
            el == ElapsedOf(ts, st)
        IN  /\ now' = ts
            /\ startTime' = st
            /\ elapsed' = el
            /\ stage' = StageAt(el)
            /\ slmPower' = SlmPowerAt(el)
            /\ aodPower' = AodPowerAt(el)
            /\ x' = XAt(el)
            /\ phase' = StageAt(el)
            /\ slmX' = SlmXAt(el)
            /\ aodX' = AodWellAt(XAt(el))
            /\ ringAngle' = (ts \div 10) % 360
            /\ dataSLM' = WaveSLM
            /\ dataAOD' = WaveAOD
            /\ markerExists' = TRUE
            /\ markerX' = IF markerExists THEN CurrentTimeX(el) ELSE markerX
            /\ animationRef' =
                   StoredHandle(animationRef, FreshHandle(rafPending, animationRef))
            /\ rafPending' =
                   (rafPending \ {id}) \cup {FreshHandle(rafPending, animationRef)}
            /\ frameNo' = IF frameNo = 0 THEN 1 ELSE 2
            /\ firstTs' = IF frameNo = 0 THEN ts ELSE firstTs
            /\ steady' = (steady /\ (frameNo = 0 \/ d * Tick < ShortestPhase))
    /\ UNCHANGED <<mounted, runs, pathMap>>

\* the cleanup of the main effect:
\* if (animationRef.current) cancelAnimationFrame(animationRef.current)
Cleanup ==
    /\ mounted
    /\ mounted' = FALSE
    /\ rafPending' = IF animationRef # 0
                     THEN CancelFrame(rafPending, animationRef)
                     ELSE rafPending
    /\ UNCHANGED <<runs, now, startTime, animationRef, frameNo, firstTs,
                   steady, pathMap>>
    /\ UNCHANGED frameVars

---------------------------------------------------------------------------
(* The statistical curve generators: numbers *)

\* the value 1 of a fit, a probability or a noise term of the chart data
DX == 10 ^ 8
\* its half width: a chart number is handled as two limbs hi * DH + lo
DH == 10 ^ 4
\* Math.random() is held in units of 1/RX: 0 .. RX - 1
RX == 10 ^ 4
\* times and time constants of the decay generator are held in 1/TS
TS == 10 ^ 3

\* null, and a present value
None == <<>>
Some(v) == <<v>>

\* a * b / DX for 0 <= a, b <= 4 * DX, rounded, without leaving 32 bits
MulLimbs(a, b) ==
    LET ah == a \div DH
        al == a % DH
        bh == b \div DH
        bl == b % DH
        mid == ah * bl + al * bh
    IN  ah * bh + mid \div DH + RoundDiv((mid % DH) * DH + al * bl, DX)

MulFx(a, b) == The({MulLimbs(u, v) : u \in {a}, v \in {b}})

\* n / d as a chart number, for integers 0 <= n and 0 < d <= 10 ^ 5
DivLimbs(n, d) ==
    LET r1 == (n % d) * DH
        r2 == (r1 % d) * DH
    IN  (n \div d) * DX + (r1 \div d) * DH + RoundDiv(r2, d)

DivFx(n, d) == The({DivLimbs(u, v) : u \in {n}, v \in {d}})

\* Math.pow(p, m) for an integer m >= 0, by squaring
RECURSIVE PowFx(_, _)
PowFx(p, m) ==
    IF m = 0 THEN DX
    ELSE IF m % 2 = 0
         THEN The({MulLimbs(h, h) : h \in {PowFx(p, m \div 2)}})
         ELSE MulFx(p, PowFx(p, m - 1))

\* s * s <= a, exactly (s * s is compared as floor and remainder of DX)
SquareAtMost(s, a) ==
    LET sh == s \div DH
        sl == s % DH
        low == ((2 * sh * sl) % DH) * DH + sl * sl
        whole == sh * sh + (2 * sh * sl) \div DH + low \div DX
    IN  whole < a \/ (whole = a /\ low % DX = 0)

\* Math.sqrt(a) for 0 <= a <= 4 * DX: the largest s with s * s <= a, by bisection
RECURSIVE SqrtSearch(_, _, _)
SqrtSearch(lo, hi, a) ==
    IF hi - lo <= 1 THEN lo
    ELSE The({IF SquareAtMost(mid, a)
              THEN SqrtSearch(mid, hi, a)
              ELSE SqrtSearch(lo, mid, a) : mid \in {(lo + hi) \div 2}})

SqrtFx(a) == The({SqrtSearch(0, 2 * DX + 1, u) : u \in {a}})

\* Math.pow(a, k / 2) for 0 <= a <= 2 * DX and an integer k >= 0
PowHalves(a, k) ==
    IF k % 2 = 0 THEN PowFx(a, k \div 2) ELSE PowFx(SqrtFx(a), k)

\* ln 2, times DX
Ln2 == 69314718
\* the number of terms of the exponential series
ExpTerms == 14

\* 1 - r/k * (1 - r/(k+1) * (...)): the series of exp(-r), 0 <= r < ln 2
RECURSIVE ExpSeries(_, _)
ExpSeries(r, k) ==
    IF k > ExpTerms THEN DX
    ELSE The({DX - RoundDiv(MulLimbs(r, tl), k) : tl \in {ExpSeries(r, k + 1)}})

\* Math.exp(-y) for y >= 0: exp(-y) = exp(-(y mod ln 2)) / 2 ^ (y div ln 2)
ExpNegLimbs(y) ==
    IF y \div Ln2 > 26 THEN 0
    ELSE RoundDiv(ExpSeries(y % Ln2, 1), 2 ^ (y \div Ln2))

ExpNeg(y) == The({ExpNegLimbs(u) : u \in {y}})

\* parseFloat(v.toFixed(digits)): v rounded to a multiple of unit, halves
\* away from zero; the result counts units
ToFixed(v, unit) ==
    IF v >= 0 THEN RoundDiv(v, unit) ELSE 0 - RoundDiv(0 - v, unit)

---------------------------------------------------------------------------
(* The statistical curve generators: generateDecayData, generateRBData *)

\* what Math.random() returns in one run of a generator: its calls are
\* numbered from 0, the even ones return s[1] / RX, the odd ones s[2] / RX
RandomLevels == {0, RX \div 2, RX - 1}
Streams == RandomLevels \X RandomLevels
Draw(s, n) == IF n % 2 = 0 THEN s[1] ELSE s[2]

\* generateDecayData(12.6, 20, 100, 0.05, 1.5), of CoherenceChart:
\* tau and maxTime in 1/TS, noise in 1/RX, exponent in halves
CoherenceArgs ==
    [tau |-> 12600, maxTime |-> 20000, points |-> 100, noise |-> 500, exponent |-> 3]
\* generateDecayData(22.9, 40, 100, 0.08, 1.0), of LifetimeChart
LifetimeArgs ==
    [tau |-> 22900, maxTime |-> 40000, points |-> 100, noise |-> 800, exponent |-> 2]
\* the arguments the generator is run with: the two charts, the first with
\* the defaults noise = 0 and exponent = 1 in place of its last two
\* arguments, and a grid finer than the 0.1 the times are emitted with
DecayInputs ==
    {CoherenceArgs, LifetimeArgs,
     [tau |-> 12600, maxTime |-> 20000, points |-> 100, noise |-> 0, exponent |-> 2],
     [tau |-> 500, maxTime |-> 1000, points |-> 8, noise |-> 1000, exponent |-> 2]}

\* i % 5 === 0, shifted by one sample
IsMeasuredShifted(i) == i % 5 = 1
\* i % 5 === 0
IsMeasured(i) == i % 5 = 0

\* const t = (maxTime / points) * i, in 1/TS
GridTime(a, i) == RoundDiv(a.maxTime * i, a.points)

\* const fit = Math.exp(-Math.pow(t / tau, exponent))
FitAt(a, i) == ExpNeg(PowHalves(DivFx(GridTime(a, i), a.tau), a.exponent))

\* the random offset added whatever the noise amplitude: Math.random() - 0.5
NoiseTermUnscaled(r, noise) == (r - RX \div 2) * RX
\* (Math.random() - 0.5) * noise, in 1/DX
NoiseTerm(r, noise) == (r - RX \div 2) * noise

\* the record pushed for index i; r is what Math.random() returned.
\* time counts tenths, fit and measured count thousandths.
DecaySample(a, i, r) ==
    The({[time |-> ToFixed(GridTime(a, i), TS \div 10),
          fit |-> ToFixed(fit, DX \div 10 ^ 3),
          measured |-> IF IsMeasured(i)
                       THEN Some(ToFixed(fit + NoiseTerm(r, a.noise),
                                         DX \div 10 ^ 3))
                       ELSE None] : fit \in {FitAt(a, i)}})

\* for (let i = 0; i <= points; i++) { ...; data.push({...}) }: the record
\* of index i is the (i + 1)-st of data, and takes the i-th Math.random()
generateDecayData(a, s) ==
    [j \in 1 .. a.points + 1 |-> DecaySample(a, j - 1, Draw(s, j - 1))]

lengths == <<2, 10, 20, 40, 80, 150, 300, 500>>
sequencesPerLength == 30
Modes == {"standard", "irb"}

\* const p_standard = 0.9985
p_standard == 9985 * DH
\* p_irb with the second factor above 1: 0.9985 * 1.0005
p_irb_raised == MulFx(9985 * DH, 10005 * DH)
\* const p_irb = 0.9985 * 0.9995
p_irb == MulFx(9985 * DH, 9995 * DH)

\* const avgProbStd = 0.5 + 0.5 * Math.pow(p_standard, m)
avgProbStd(m) == (DX + PowFx(p_standard, m)) \div 2
\* const avgProbIrb = 0.5 + 0.5 * Math.pow(p_irb, m)
avgProbIrb(m) == (DX + PowFx(p_irb, m)) \div 2

\* variance with the exponential itself for its complement: 0.05 * Math.exp(-m/100)
varianceDecaying(m) == (5 * ExpNeg(DivFx(m, 100))) \div 100
\* const variance = 0.05 * (1 - Math.exp(-m/100))
variance(m) == (5 * (DX - ExpNeg(DivFx(m, 100)))) \div 100

\* (d / RX) * v for -RX <= d <= RX and 0 <= v <= DX
ScaleRx(d, v) == d * (v \div RX) + ToFixed(d * (v % RX), RX)

Min(a, b) == IF a <= b THEN a ELSE b
Max(a, b) == IF a >= b THEN a ELSE b

\* Math.min(1, Math.max(0, avg + (Math.random() - 0.5) * variance * 2))
ScatterVal(avg, r, m) ==
    Min(DX, Max(0, avg + ScaleRx(r - RX \div 2, 2 * variance(m))))

\* the category of the scatter records, the same in both modes
ScatterCategoryFixed(mode) == "Standard"
\* category: 'Standard' in the standard branch, 'IRB' in the other
ScatterCategory(mode) == IF mode = "standard" THEN "Standard" ELSE "IRB"

\* the sequencesPerLength scatter records of one length; n0 numbers the
\* first Math.random() call of this length.  y counts 1/DH.
ScatterRecords(mode, s, m, avg, n0) ==
    [i \in 1 .. sequencesPerLength |->
        [length |-> m,
         y |-> ToFixed(ScatterVal(avg, Draw(s, n0 + i - 1), m), DX \div DH),
         type |-> "scatter",
         category |-> ScatterCategory(mode)]]

\* the record pushed after the scatter records of one length
FitRecord(mode, m) ==
    [length |-> m,
     standard_fit |-> ToFixed(avgProbStd(m), DX \div DH),
     irb_fit |-> IF mode = "irb"
                 THEN Some(ToFixed(avgProbIrb(m), DX \div DH))
                 ELSE None,
     type |-> "line"]

\* one forEach step that pushes the scatter records of both curves in irb mode
RBBlockBothCurves(mode, s, j) ==
    The({(IF mode = "irb"
          THEN ScatterRecords("standard", s, m, avgProbStd(m), (j - 1) * sequencesPerLength)
          ELSE <<>>)
         \o ScatterRecords(mode, s, m,
                           IF mode = "standard" THEN avgProbStd(m) ELSE avgProbIrb(m),
                           (j - 1) * sequencesPerLength)
         \o <<FitRecord(mode, m)>> : m \in {lengths[j]}})

\* one step of lengths.forEach(m => ...), for the j-th length
RBBlock(mode, s, j) ==
    The({ScatterRecords(mode, s, m,
                        IF mode = "standard" THEN avgProbStd(m) ELSE avgProbIrb(m),
                        (j - 1) * sequencesPerLength)
         \o <<FitRecord(mode, m)>> : m \in {lengths[j]}})

RECURSIVE RBLoop(_, _, _, _)
RBLoop(mode, s, j, data) ==
    IF j > Len(lengths) THEN data
    ELSE RBLoop(mode, s, j + 1, data \o RBBlock(mode, s, j))

\* data.sort((a, b) => a.length - b.length): a stable sort, the records of
\* each length stay in the order they were pushed in
RECURSIVE SortByLength(_)
SortByLength(data) ==
    IF data = <<>> THEN <<>>
    ELSE LET keys == {data[i].length : i \in 1 .. Len(data)}
             least == CHOOSE k \in keys : \A l \in keys : k <= l
         IN  SelectSeq(data, LAMBDA r : r.length = least)
                 \o SortByLength(SelectSeq(data, LAMBDA r : r.length # least))

generateRBData(mode, s) == SortByLength(RBLoop(mode, s, 1, <<>>))

---------------------------------------------------------------------------
(* The charts: CoherenceChart, LifetimeChart, RBChart *)

\* every run of the generators the charts can make
DecayRuns ==
    CHOOSE f \in {[c \in DecayInputs \X Streams |-> generateDecayData(c[1], c[2])]} :
        f = f
RBRuns ==
    CHOOSE f \in {[c \in Modes \X Streams |-> generateRBData(c[1], c[2])]} : f = f

\* useState('standard'); no chart has rendered yet
ChartInit ==
    /\ decayArgs = None
    /\ decayData = <<>>
    /\ rbMode = "standard"
    /\ rbData = <<>>

\* a render of a decay chart: const data = generateDecayData(...)
RenderDecay(a, s) ==
    /\ decayArgs' = a
    /\ decayData' = DecayRuns[<<a, s>>]
    /\ UNCHANGED <<rbMode, rbData>>

\* the first render of RBChart: const data = generateRBData(mode)
RenderRB(s) ==
    /\ rbData = <<>>
    /\ rbData' = RBRuns[<<rbMode, s>>]
    /\ UNCHANGED <<decayArgs, decayData, rbMode>>

\* onClick of a mode button that changes the mode: setMode(m), and the
\* render it causes
SetMode(m, s) ==
    /\ rbData # <<>>
    /\ m # rbMode
    /\ rbMode' = m
    /\ rbData' = RBRuns[<<m, s>>]
    /\ UNCHANGED <<decayArgs, decayData>>

---------------------------------------------------------------------------
(* rotate, applied to a vector and chained as the pulse legs chain it *)

\* a rotate call is chained at most MaxChain deep
MaxChain == 3

\* the vectors rotate is first applied to: the start vector, two more of
\* the sphere and one off it
TestVectors ==
    {startVec,
     [x |-> 72 * VS, y |-> 0, z |-> 96 * VS],
     [x |-> 0 - 80 * VS, y |-> 60 * VS, z |-> 0 - 66 * VS],
     [x |-> 40 * VS, y |-> 0 - 30 * VS, z |-> 120 * VS]}
\* the axes, among them those of the pulses
RotAxes == {0, phi1, phi2, Deg(135)}
\* the angles, among them 0, one step of the single pulse, and whole legs
RotThetas ==
    {0, simpleTotalAngle(0) \div simpleSteps, Deg(90), theta1(0), theta1(20),
     theta2(0 - 20), 0 - Deg(90)}
\* the legs of the composite sequence, at the ends and the middle of the slider
LegSteps ==
    {<<phi1, theta1(e)>> : e \in {0 - 20, 0, 20}}
        \cup {<<phi2, theta2(e)>> : e \in {0 - 20, 0, 20}}

RotateInit ==
    /\ rotV = startVec
    /\ rotAxis = 0
    /\ rotTheta = 0
    /\ rotOut = startVec
    /\ rotDepth = 0
    /\ rotNorm2 = Norm2(startVec)

\* rotate(v, a, th), the first call of a chain
ApplyRotate(v, a, th) ==
    /\ rotDepth = 0
    /\ rotV' = v
    /\ rotAxis' = a
    /\ rotTheta' = th
    /\ rotOut' = rotate(v, a, th)
    /\ rotDepth' = 1
    /\ rotNorm2' = Norm2(v)

\* rotate(curr, a, th), curr the vector the last call returned
ChainRotate(a, th) ==
    /\ rotDepth >= 1
    /\ rotDepth < MaxChain
    /\ rotV' = rotOut
    /\ rotAxis' = a
    /\ rotTheta' = th
    /\ rotOut' = rotate(rotOut, a, th)
    /\ rotDepth' = rotDepth + 1
    /\ UNCHANGED rotNorm2

---------------------------------------------------------------------------
(* GeminiChat: handleSend and streamGeminiResponse.  A text is a sequence:
   of characters for what is typed, of chunks for what is streamed; the
   timestamp of a message is left out. *)

\* at most MaxSends sends are accepted
MaxSends == 2
\* a stream delivers at most MaxChunks chunks with text
MaxChunks == 2

Whitespace == {" ", "\t"}
\* what the input field can hold
InputTexts == {<<>>, <<" ">>, <<"q">>, <<" ", "q", "\t">>}
\* chunk.text of a streamed chunk; "" stands for an empty or missing text
ChunkTexts == {"", "a", "b"}

Greeting == <<"Hello! I'm your research assistant">>
KeyMissing == "Error: API Key is missing in the environment variables."
ConnectionError == "\n[Connection Error: Unable to reach Gemini API. Please check your API key.]"

RECURSIVE TrimStart(_)
TrimStart(t) ==
    IF t = <<>> THEN t
    ELSE IF Head(t) \in Whitespace THEN TrimStart(Tail(t)) ELSE t
RECURSIVE TrimEnd(_)
TrimEnd(t) ==
    IF t = <<>> THEN t
    ELSE IF t[Len(t)] \in Whitespace THEN TrimEnd(SubSeq(t, 1, Len(t) - 1)) ELSE t
\* input.trim()
Trim(t) == TrimEnd(TrimStart(t))

\* the guard with the isLoading test left out
BlockedOnBlankOnly(inp, loading) == Trim(inp) = <<>>
\* if (!input.trim() || isLoading) return
Blocked(inp, loading) == Trim(inp) = <<>> \/ loading

\* an updater that pushes the response so far as one more message
WithTextAppended(msgs, t) == Append(msgs, [role |-> "model", text |-> t])
\* prev => { newHistory = [...prev]; newHistory[length - 1].text = fullResponse }
WithLastText(msgs, t) == [msgs EXCEPT ![Len(msgs)].text = t]

\* the call after `if (!process.env.API_KEY) { onChunk(...); return; }`:
\* without a key it has returned, with fullResponse the error text
Called(key) ==
    IF key
    THEN [phase |-> "streaming", outcome |-> "pending", fullResponse |-> <<>>]
    ELSE [phase |-> "returned", outcome |-> "nokey", fullResponse |-> <<KeyMissing>>]

\* a catch block that throws the error on: the awaited promise rejects
Uncaught(r) == [r EXCEPT !.phase = "rejected", !.outcome = "failed"]
\* catch (error) { console.error(...); onChunk("\n[Connection Error: ...]") }
Caught(r) ==
    [r EXCEPT !.phase = "returned", !.outcome = "failed",
              !.fullResponse = r.fullResponse \o <<ConnectionError>>]

\* s without its i-th element
Without(s, i) == [j \in 1 .. Len(s) - 1 |-> IF j < i THEN s[j] ELSE s[j + 1]]

ChatInit ==
    /\ messages = <<[role |-> "model", text |-> Greeting]>>
    /\ input = <<>>
    /\ isLoading = FALSE
    /\ requests = <<>>
    /\ lastSend = "none"

\* onChange: setInput(e.target.value)
SetInput(v) ==
    /\ input' = v
    /\ UNCHANGED <<messages, isLoading, requests, lastSend>>

\* handleSend, on Enter or a click, up to its await; key is whether
\* process.env.API_KEY is set.  Without a key the error chunk is delivered
\* inside the call, before it returns.
HandleSend(key) ==
    IF Blocked(input, isLoading)
    THEN /\ lastSend' = "returned"
         /\ UNCHANGED <<messages, input, isLoading, requests>>
    ELSE /\ Len(messages) < 1 + 2 * MaxSends
         /\ messages' =
               IF key
               THEN messages \o <<[role |-> "user", text |-> input],
                                  [role |-> "model", text |-> <<>>]>>
               ELSE WithLastText(messages \o <<[role |-> "user", text |-> input],
                                               [role |-> "model", text |-> <<>>]>>,
                                 Called(key).fullResponse)
         /\ input' = <<>>
         /\ isLoading' = TRUE
         /\ requests' = Append(requests, Called(key))
         /\ lastSend' = "sent"

\* the stream of request i yields a chunk:
\* if (chunk.text) onChunk(chunk.text), fullResponse += chunk
Chunk(i, c) ==
    /\ i \in 1 .. Len(requests)
    /\ requests[i].phase = "streaming"
    /\ Len(requests[i].fullResponse) < MaxChunks
    /\ IF c # ""
       THEN /\ requests' = [requests EXCEPT ![i].fullResponse = @ \o <<c>>]
            /\ messages' = WithLastText(messages, requests[i].fullResponse \o <<c>>)
       ELSE UNCHANGED <<requests, messages>>
    /\ UNCHANGED <<input, isLoading, lastSend>>

\* the stream of request i ends: the for await loop and the call return
StreamEnds(i) ==
    /\ i \in 1 .. Len(requests)
    /\ requests[i].phase = "streaming"
    /\ requests' = [requests EXCEPT ![i].phase = "returned",
                                    ![i].outcome = "completed"]
    /\ UNCHANGED <<messages, input, isLoading, lastSend>>

\* the remote call of request i throws, before or between chunks
StreamFails(i) ==
    /\ i \in 1 .. Len(requests)
    /\ requests[i].phase = "streaming"
    /\ requests' = [requests EXCEPT ![i] = Caught(requests[i])]
    /\ messages' =
          IF Caught(requests[i]).fullResponse # requests[i].fullResponse
          THEN WithLastText(messages, Caught(requests[i]).fullResponse)
          ELSE messages
    /\ UNCHANGED <<input, isLoading, lastSend>>

\* handleSend after its await, for request i: setIsLoading(false)
Resume(i) ==
    /\ i \in 1 .. Len(requests)
    /\ requests[i].phase = "returned"
    /\ isLoading' = FALSE
    /\ requests' = Without(requests, i)
    /\ UNCHANGED <<messages, input, lastSend>>

---------------------------------------------------------------------------
(* Specifications *)

Init == PulseInit /\ TransportInit /\ ChartInit /\ RotateInit /\ ChatInit

PulseNext ==
    \/ \E k \in ErrorRates :
          SetErrorRate(k) /\ UNCHANGED <<frameVars, loopVars, chartVars, rotVars, chatVars>>
    \/ RunEffect /\ UNCHANGED <<frameVars, loopVars, chartVars, rotVars, chatVars>>

TransportNext ==
    \/ \E d \in 0 .. MaxStep : Mount(d) /\ UNCHANGED <<pulseVars, chartVars, rotVars, chatVars>>
    \/ \E d \in 0 .. MaxStep : Frame(d) /\ UNCHANGED <<pulseVars, chartVars, rotVars, chatVars>>
    \/ Cleanup /\ UNCHANGED <<pulseVars, chartVars, rotVars, chatVars>>

ChartNext ==
    \/ \E a \in DecayInputs, s \in Streams :
          RenderDecay(a, s) /\ UNCHANGED <<pulseVars, frameVars, loopVars, rotVars, chatVars>>
    \/ \E s \in Streams :
          RenderRB(s) /\ UNCHANGED <<pulseVars, frameVars, loopVars, rotVars, chatVars>>
    \/ \E m \in Modes, s \in Streams :
          SetMode(m, s) /\ UNCHANGED <<pulseVars, frameVars, loopVars, rotVars, chatVars>>

RotateNext ==
    \/ \E v \in TestVectors, a \in RotAxes, th \in RotThetas :
          ApplyRotate(v, a, th) /\ UNCHANGED <<pulseVars, frameVars, loopVars, chartVars, chatVars>>
    \/ \E l \in LegSteps :
          ChainRotate(l[1], l[2]) /\ UNCHANGED <<pulseVars, frameVars, loopVars, chartVars, chatVars>>

\* the steps that end a stream
Settled == \E i \in 1 .. MaxSends : StreamEnds(i) \/ StreamFails(i)
\* the continuation of handleSend
Resumed == \E i \in 1 .. MaxSends : Resume(i)

ChatNext ==
    \/ \E v \in InputTexts :
          SetInput(v) /\ UNCHANGED <<pulseVars, frameVars, loopVars, chartVars, rotVars>>
    \/ \E key \in BOOLEAN :
          HandleSend(key) /\ UNCHANGED <<pulseVars, frameVars, loopVars, chartVars, rotVars>>
    \/ \E i \in 1 .. MaxSends, c \in ChunkTexts :
          Chunk(i, c) /\ UNCHANGED <<pulseVars, frameVars, loopVars, chartVars, rotVars>>
    \/ \E i \in 1 .. MaxSends :
          StreamEnds(i) /\ UNCHANGED <<pulseVars, frameVars, loopVars, chartVars, rotVars>>
    \/ \E i \in 1 .. MaxSends :
          StreamFails(i) /\ UNCHANGED <<pulseVars, frameVars, loopVars, chartVars, rotVars>>
    \/ \E i \in 1 .. MaxSends :
          Resume(i) /\ UNCHANGED <<pulseVars, frameVars, loopVars, chartVars, rotVars>>

Next == PulseNext \/ TransportNext \/ ChartNext \/ RotateNext \/ ChatNext

\* the whole page
Spec == Init /\ [][Next]_vars
\* PulseControl alone
PulseSpec == Init /\ [][PulseNext]_vars
\* TransportSimulation alone
TransportSpec == Init /\ [][TransportNext]_vars
\* the charts alone
ChartSpec == Init /\ [][ChartNext]_vars
\* rotate alone
RotateSpec == Init /\ [][RotateNext]_vars
\* GeminiChat alone
ChatSpec == Init /\ [][ChatNext]_vars
\* GeminiChat with a remote stream that ends or fails, and an event loop
\* that runs the continuation of an await that has settled
ChatLiveSpec ==
    /\ Init /\ [][ChatNext]_vars
    /\ WF_vars(Settled /\ UNCHANGED <<pulseVars, frameVars, loopVars, chartVars, rotVars>>)
    /\ WF_vars(Resumed /\ UNCHANGED <<pulseVars, frameVars, loopVars, chartVars, rotVars>>)

---------------------------------------------------------------------------
(* Claims *)

Abs(n) == IF n < 0 THEN 0 - n ELSE n

\* 5% of the sphere radius, in 1/VS pixel
Tolerance5 == (5 * radius * VS) \div 100

\* squared screen distance of the single-pulse endpoint marker from the
\* projected target pole
EndSimpleDist2 == ScreenDist2(endSimple, project(targetPole))

\* the time of waveform sample i (gt = i / graphPoints), in ms
SampleMs(i) == (i * totalDuration) \div graphPoints

\* t of the last frame lies in [lo/100, hi/100)
TIn(lo, hi) == lo * totalDuration <= elapsed * 100 /\ elapsed * 100 < hi * totalDuration

\* the stage that follows s in the cycle
StageAfter(s) ==
    CASE s = "Handover (SLM -> AOD)" -> "Diagonal Transport"
      [] s = "Diagonal Transport" -> "Handover (AOD -> SLM)"
      [] s = "Handover (AOD -> SLM)" -> "Resetting..."
      [] s = "Resetting..." -> "Handover (SLM -> AOD)"
      [] OTHER -> "Handover (SLM -> AOD)"

\* C1 (as claimed): whatever the calibration error, the final vector of the
\* three-leg composite sequence lies within 5% of the radius of the target
\* pole (0, +radius, 0).  The code's legs (180, 360, 180 degrees times
\* 1 + error) compose to the identity at error 0: the final vector is the
\* start pole, a full diameter away.
C1_CompositeEndsAtTarget ==
    drawnError # NotDrawn =>
        Dist2(currentScrof, targetPole) <= Tolerance5 * Tolerance5

\* C2 (as claimed): when the drawing is regenerated, the single-pulse
\* endpoint marker is on the target pole (within half a pixel) if the new
\* error is 0, and is farther from the target pole than before if the new
\* error is larger in magnitude than the previous one.  The loop pushes the
\* point of step i - 1 at step i, so the marker sits at 19/20 of the angle.
C2_SimpleEndpointMonotone ==
    [][drawnError' # drawnError =>
          /\ drawnError' = 0 => 4 * EndSimpleDist2' <= VS * VS
          /\ (drawnError # NotDrawn /\ Abs(drawnError') > Abs(drawnError))
                => EndSimpleDist2' > EndSimpleDist2
      ]_vars

\* C3: every frame's t lies in [0,1) and its stage is Handover (SLM -> AOD)
\* iff t < 0.15, Transport iff 0.15 <= t < 0.75, Handover (AOD -> SLM) iff
\* 0.75 <= t < 0.9, Reset iff 0.9 <= t < 1: exactly one stage per t.
C3_StagePartition ==
    frameNo >= 1 =>
        /\ TIn(0, 100)
        /\ (stage = "Handover (SLM -> AOD)") <=> TIn(0, 15)
        /\ (stage = "Diagonal Transport") <=> TIn(15, 75)
        /\ (stage = "Handover (AOD -> SLM)") <=> TIn(75, 90)
        /\ (stage = "Resetting...") <=> TIn(90, 100)

\* a frame exactly on the last boundary, t = 0.9, is a Reset frame
C3_Witness ==
    frameNo >= 1 /\ elapsed * 100 = 90 * totalDuration /\ stage = "Resetting..."

\* C4: between two consecutive frames of a run whose timestamps are less
\* than the shortest phase (800 ms) apart, the stage stays or moves to the
\* next stage of the cycle Handover (SLM -> AOD), Transport,
\* Handover (AOD -> SLM), Reset, Handover (SLM -> AOD), ...
C4_StageOrder ==
    [][(/\ mounted /\ mounted'
        /\ runs' = runs
        /\ frameNo >= 1 /\ frameNo' = 2
        /\ now' - now < ShortestPhase)
          => (stage' = stage \/ stage' = StageAfter(stage))
      ]_vars

\* a run of small steps only that has gone through a whole cycle and is
\* back in the first stage
C4_Witness ==
    /\ mounted /\ steady /\ frameNo = 2
    /\ now - firstTs > totalDuration
    /\ stage = "Handover (SLM -> AOD)"

\* C5: slmPower and aodPower of every frame lie in [0, 1]
C5_PowersInUnitInterval ==
    /\ 0 <= slmPower /\ slmPower <= RampMs
    /\ 0 <= aodPower /\ aodPower <= RampMs

\* a frame inside the second handover ramp: both powers strictly inside (0, 1)
C5_Witness ==
    /\ frameNo >= 1 /\ stage = "Handover (AOD -> SLM)"
    /\ 0 < slmPower /\ slmPower < RampMs
    /\ 0 < aodPower /\ aodPower < RampMs

\* C6 (as claimed): for every sample i in 0 .. 99 the amplitudes plotted at
\* gt = i / 100 are the slmPower and aodPower the frame derives for t = gt.
\* In the Reset phase the graph plots SLM 0 where the frame has slmPower 1.
C6_WaveformMatchesState ==
    frameNo >= 1 =>
        \A i \in 0 .. graphPoints - 1 :
            /\ Amplitude(dataSLM[i + 1]) = SlmPowerAt(SampleMs(i))
            /\ Amplitude(dataAOD[i + 1]) = AodPowerAt(SampleMs(i))

\* the times of one cycle on the grid of the model, in ms
CycleTimes == {k * Tick : k \in 0 .. totalDuration \div Tick - 1}

\* the stage label a Transport frame shows when it runs path policy p
PolicyStage(p) == p \o " Transport"

\* the path policies, of those the 2D inset draws, that animate runs at some
\* time of the cycle: the stage of that time names the policy
PoliciesRun == {p \in InsetPaths : \E el \in CycleTimes : StageAt(el) = PolicyStage(p)}

\* C7 (as claimed): the engine selects between two path policies, the
\* simultaneous-axis (diagonal) and the sequential-axis one, so each policy
\* the inset draws is run by some frame of the Transport phase; and the
\* stage, the powers and the waveforms are those of t whatever the policy.
\* animate has one Transport branch: at every time of the phase the stage is
\* Diagonal Transport and x is on the one eased path; nothing selects the
\* sequential-axis path the inset draws.
C7_TwoPathPolicies ==
    /\ runs >= 1 =>
          /\ pathMap \subseteq PoliciesRun
          /\ Cardinality(PoliciesRun) = 2
    /\ frameNo >= 1 =>
          /\ stage = StageAt(elapsed)
          /\ slmPower = SlmPowerAt(elapsed)
          /\ aodPower = AodPowerAt(elapsed)
          /\ dataSLM = WaveSLM
          /\ dataAOD = WaveAOD

\* C8: once the cleanup has run, no requested frame is pending and animate
\* does not run: nothing a frame writes changes until the view is mounted
\* again
C8_NoFrameAfterCleanup ==
    /\ [](~mounted => rafPending = {})
    /\ [][(~mounted /\ ~mounted') => UNCHANGED frameVars]_vars

\* the second run was cleaned up before its first frame fired (and the
\* first run after some frames or none)
C8_Witness == ~mounted /\ runs = 2 /\ frameNo = 0 /\ animationRef # 0

\* C9: the first frame of every run, the first or a later one, has t = 0
\* and stage Handover (SLM -> AOD), whatever its timestamp
C9_FreshStart ==
    frameNo = 1 => elapsed = 0 /\ stage = "Handover (SLM -> AOD)"

\* the first frame of a second run, at a timestamp that is not the start of
\* a cycle counted from the clock's origin
C9_Witness ==
    /\ runs = 2 /\ frameNo = 1
    /\ firstTs % totalDuration # 0
    /\ elapsed = 0

\* C10 (as claimed): every frame's t is in [0,1) and is
\* ((timestamp - timestamp of the first frame) mod 8000) / 8000.
\* `if (!startTime)` takes a first timestamp of 0 for "not started": the
\* start is then the timestamp of the first frame whose timestamp is not 0.
C10_ElapsedFromFirstFrame ==
    (mounted /\ frameNo >= 1) =>
        /\ 0 <= elapsed /\ elapsed < totalDuration
        /\ elapsed = (now - firstTs) % totalDuration

\* C11: in every frame with t in [0.9, 1) (Reset) slmPower = 1, aodPower = 0
\* and the particle position x is the start coordinate startX
C11_ResetValues ==
    (frameNo >= 1 /\ TIn(90, 100)) =>
        /\ slmPower = RampMs
        /\ aodPower = 0
        /\ x = startX * XDen

\* a Reset frame strictly inside the phase, reached after the particle has
\* been carried to endX in the same run
C11_Witness ==
    /\ frameNo = 2 /\ steady
    /\ 90 * totalDuration < elapsed * 100
    /\ stage = "Resetting..." /\ x = startX * XDen /\ slmPower = RampMs

\* C12: in both handover phases the position is fixed and the powers are
\* complementary linear ramps: for t in [0, 0.15) x = startX,
\* slmPower = 1 - t/0.15, aodPower = t/0.15; for t in [0.75, 0.9) x = endX,
\* aodPower = 1 - (t - 0.75)/0.15, slmPower = (t - 0.75)/0.15
C12_HandoverRamps ==
    /\ (frameNo >= 1 /\ TIn(0, 15)) =>
          /\ x = startX * XDen
          /\ slmPower = RampMs - elapsed
          /\ aodPower = elapsed
          /\ slmPower + aodPower = RampMs
    /\ (frameNo >= 1 /\ TIn(75, 90)) =>
          /\ x = endX * XDen
          /\ 100 * aodPower = 100 * RampMs - (100 * elapsed - 75 * totalDuration)
          /\ 100 * slmPower = 100 * elapsed - 75 * totalDuration
          /\ slmPower + aodPower = RampMs

\* a frame inside the first ramp, neither at its start nor at its end
C12_Witness ==
    /\ frameNo >= 1 /\ stage = "Handover (SLM -> AOD)"
    /\ 0 < elapsed /\ x = startX * XDen
    /\ 0 < aodPower /\ aodPower < RampMs

\* C13: in every frame with t in [0.15, 0.75) (Transport) slmPower = 0,
\* aodPower = 1 and x lies in [startX, endX], x = startX at t = 0.15; and x
\* never moves backwards within the phase: of two consecutive frames of one
\* pass through the phase the later one has the larger or the same x
C13_TransportMonotone ==
    /\ []((frameNo >= 1 /\ TIn(15, 75)) =>
            /\ slmPower = 0 /\ aodPower = RampMs
            /\ startX * XDen <= x /\ x <= endX * XDen
            /\ (elapsed * 100 = 15 * totalDuration) => x = startX * XDen)
    /\ [][(/\ mounted /\ mounted' /\ runs' = runs
           /\ frameNo >= 1 /\ frameNo' = 2
           /\ TIn(15, 75) /\ TIn(15, 75)'
           /\ elapsed' >= elapsed)
             => x' >= x
        ]_vars

\* a Transport frame in the second half of the easing, short of endX
C13_Witness ==
    /\ frameNo >= 1 /\ stage = "Diagonal Transport"
    /\ elapsed * 100 > 45 * totalDuration
    /\ (startX + endX) * XDen < 2 * x /\ x < endX * XDen

\* the records of rbData of type ty and length m
RBRecords(ty, m) ==
    {i \in 1 .. Len(rbData) : rbData[i].type = ty /\ rbData[i].length = m}

\* the fitted value rbData holds for length m, in the mode's own curve
FittedValue(m) ==
    LET li == CHOOSE i \in RBRecords("line", m) : TRUE
    IN  IF rbMode = "irb" THEN rbData[li].irb_fit[1] ELSE rbData[li].standard_fit

\* how far scatter record i lies from the fitted value of its length, in 1/DX
Deviation(i) == Abs(rbData[i].y - FittedValue(rbData[i].length)) * (DX \div DH)

\* the tolerance of the squared magnitude n2 after one rotate call: a
\* thousandth of it
NormTolerance(n2) == n2 \div 10 ^ 3

\* C14: generateDecayData returns points + 1 samples in grid order, sample i
\* carrying the time maxTime * i / points (as emitted, to one decimal), and
\* sample i has a measured value iff i is a multiple of 5; every other
\* sample has measured null
C14_DecayStride ==
    decayData # <<>> =>
        /\ Len(decayData) = decayArgs.points + 1
        /\ \A i \in 0 .. decayArgs.points :
              /\ decayData[i + 1].time
                     = RoundDiv(decayArgs.maxTime * i, decayArgs.points * (TS \div 10))
              /\ (decayData[i + 1].measured # None) <=> (i % 5 = 0)
              /\ i >= 1 => decayData[i].time <= decayData[i + 1].time

\* the data of CoherenceChart: sample 5 measured, with noise, and sample 4 not
C14_Witness ==
    /\ decayArgs = CoherenceArgs
    /\ Len(decayData) = 101
    /\ decayData[6].measured # None
    /\ decayData[6].measured # Some(decayData[6].fit)
    /\ decayData[5].measured = None

\* C15: in either mode generateRBData returns, for each of the 8 lengths
\* 2, 10, 20, 40, 80, 150, 300, 500, exactly 30 scatter records and exactly
\* one 'line' record: 248 records in all
C15_RBRecordCount ==
    rbData # <<>> =>
        /\ Len(rbData) = 248
        /\ \A m \in {2, 10, 20, 40, 80, 150, 300, 500} :
              /\ Cardinality(RBRecords("scatter", m)) = 30
              /\ Cardinality(RBRecords("line", m)) = 1

\* the data of standard mode: it begins with a scatter record of length 2
\* and ends with the fitted record of length 500
C15_Witness ==
    /\ rbMode = "standard"
    /\ Len(rbData) = 248
    /\ rbData[248].type = "line" /\ rbData[248].length = 500
    /\ rbData[1].type = "scatter" /\ rbData[1].length = 2

\* C16: in standard mode every scatter record has category Standard and
\* every fitted record has irb_fit = null; in irb mode every scatter record
\* has category IRB; no output holds scatter records of both categories,
\* whatever mode switches came before
C16_CategoriesExclusive ==
    rbData # <<>> =>
        LET scatter == {i \in 1 .. Len(rbData) : rbData[i].type = "scatter"}
            line == {i \in 1 .. Len(rbData) : rbData[i].type = "line"}
        IN  /\ rbMode = "standard" =>
                  /\ \A i \in scatter : rbData[i].category = "Standard"
                  /\ \A i \in line : rbData[i].irb_fit = None
            /\ rbMode = "irb" => \A i \in scatter : rbData[i].category = "IRB"
            /\ \A i, j \in scatter : rbData[i].category = rbData[j].category

\* the chart switched to irb mode: IRB scatter records, irb_fit present
C16_Witness ==
    /\ rbMode = "irb" /\ rbData # <<>>
    /\ \E i \in 1 .. Len(rbData) :
          rbData[i].type = "scatter" /\ rbData[i].category = "IRB"
    /\ \E i \in 1 .. Len(rbData) :
          rbData[i].type = "line" /\ rbData[i].irb_fit # None

\* C17: in irb mode, at every length the emitted irb_fit (4 decimals) is at
\* most the emitted standard_fit of the same record
C17_IrbFitBelowStandard ==
    (rbMode = "irb" /\ rbData # <<>>) =>
        \A i \in 1 .. Len(rbData) :
            rbData[i].type = "line" =>
                /\ rbData[i].irb_fit # None
                /\ rbData[i].irb_fit[1] <= rbData[i].standard_fit

\* irb data whose two fitted values differ at the shortest and at the
\* longest length
C17_Witness ==
    /\ rbMode = "irb" /\ rbData # <<>>
    /\ \A m \in {2, 500} :
          \E i \in RBRecords("line", m) :
              rbData[i].irb_fit[1] < rbData[i].standard_fit

\* C18 (as claimed): the noise amplitude shrinks as the length grows: for
\* two lengths m1 < m2 of the list the amplitude used at m2 is at most the
\* one used at m1
C18_NoiseShrinks ==
    rbData # <<>> =>
        \A j1, j2 \in 1 .. Len(lengths) :
            j1 < j2 => variance(lengths[j2]) <= variance(lengths[j1])

\* C18 (amended): the noise amplitude 0.05 * (1 - exp(-m/100)) grows with
\* the length: for m1 < m2 the amplitude used at m1 is at most the one used
\* at m2, and every scatter record lies within the amplitude of its length
\* of the fitted value (up to the rounding of the two emitted values)
C18_NoiseGrows ==
    rbData # <<>> =>
        /\ \A j1, j2 \in 1 .. Len(lengths) :
              j1 < j2 => variance(lengths[j1]) <= variance(lengths[j2])
        /\ \A i \in 1 .. Len(rbData) :
              rbData[i].type = "scatter" =>
                  Deviation(i) <= variance(rbData[i].length) + DX \div DH

\* a scatter record of length 500 lies farther from its fitted value than
\* the amplitude of length 2 allows, and no record of length 2 does
C18_Witness ==
    /\ rbData # <<>>
    /\ \E i \in RBRecords("scatter", 500) :
          Deviation(i) > variance(2) + DX \div DH
    /\ \A i \in RBRecords("scatter", 2) :
          Deviation(i) <= variance(2) + DX \div DH

\* C19: rotate(v, axisAngle, 0) is v, component by component, for every
\* vector v and every axisAngle
C19_RotateZeroIdentity ==
    (rotDepth >= 1 /\ rotTheta = 0) => rotOut = rotV

\* theta = 0 about a pulse axis, on a vector off the sphere with no zero
\* component
C19_Witness ==
    /\ rotDepth = 1 /\ rotTheta = 0 /\ rotAxis = Deg(60)
    /\ rotV.x # 0 /\ rotV.y # 0 /\ rotV.z # 0
    /\ Norm2(rotV) # radius * VS * radius * VS
    /\ rotOut = rotV

\* C20: rotate(v, axisAngle, theta) has the magnitude of v within the
\* tolerance of the arithmetic, so the vectors of a chain of legs that
\* starts on the sphere stay on it: after d chained calls the squared
\* magnitude is within d tolerances of the one the chain started with
C20_RotatePreservesNorm ==
    rotDepth >= 1 =>
        /\ Abs(Norm2(rotOut) - Norm2(rotV)) <= NormTolerance(Norm2(rotV))
        /\ Abs(Norm2(rotOut) - rotNorm2) <= rotDepth * NormTolerance(rotNorm2)

\* the third leg of a chain from the start vector, ending away from both poles
C20_Witness ==
    /\ rotDepth = 3 /\ rotNorm2 = radius * VS * radius * VS
    /\ rotOut.x # 0 /\ rotOut.z # 0
    /\ rotOut # rotV

\* the single-pulse angle reached at sample k of 20, for the drawn error
SimpleAngle(k) == RoundDiv(HalfTurn * (100 + drawnError) * k, 100 * 20)

\* a half turn scaled by 1 + error, for the drawn error
ScaledHalfTurn == (HalfTurn * (100 + drawnError)) \div 100

\* point k of n of a leg of the given angle about the given axis, from v
LegPoint(v, axis, angle, k, n) == project(rotate(v, axis, RoundDiv(angle * k, n)))

\* C21 (as claimed): the single-pulse polyline has 21 points and point k,
\* k = 0 .. 20, is the projection of the start vector rotated by
\* pi * (1 + error) * k / 20: first point at angle 0, last at the full
\* angle, no angle twice.  The loop pushes the vector of step k - 1 at step
\* k: angle 0 is drawn twice and the last point is at 19/20 of the angle.
C21_SimpleSamples ==
    drawnError # NotDrawn =>
        /\ Len(simplePoints) = 21
        /\ \A k \in 0 .. 20 :
              simplePoints[k + 1] = project(rotate(startVec, 0, SimpleAngle(k)))

\* C22: the composite trajectory is three legs of 15, 25 and 15 steps, 56
\* points with the start point; leg 1 starts from the start vector, each
\* later leg from the final vector of the leg before, the final vector of a
\* leg is its start rotated by the leg's whole angle; leg 3 has the angle
\* and the axis phase of leg 1, leg 2 twice the angle of leg 1 about another
\* axis phase
C22_CompositeLegs ==
    drawnError # NotDrawn =>
        /\ Len(scrofulousPoints) = 56
        /\ scrofulousPoints[1] = project(startVec)
        /\ theta3(drawnError) = theta1(drawnError) /\ phi3 = phi1
        /\ theta2(drawnError) = 2 * theta1(drawnError) /\ phi2 # phi1
        /\ theta1(drawnError) = ScaledHalfTurn
        /\ \A v1 \in {rotate(startVec, phi1, ScaledHalfTurn)} :
           \A v2 \in {rotate(v1, phi2, 2 * ScaledHalfTurn)} :
           \A v3 \in {rotate(v2, phi1, ScaledHalfTurn)} :
              /\ \A k \in 1 .. 15 :
                    scrofulousPoints[1 + k]
                        = LegPoint(startVec, phi1, ScaledHalfTurn, k, 15)
              /\ scrofulousPoints[16] = project(v1)
              /\ \A k \in 1 .. 25 :
                    scrofulousPoints[16 + k]
                        = LegPoint(v1, phi2, 2 * ScaledHalfTurn, k, 25)
              /\ scrofulousPoints[41] = project(v2)
              /\ \A k \in 1 .. 15 :
                    scrofulousPoints[41 + k]
                        = LegPoint(v2, phi1, ScaledHalfTurn, k, 15)
              /\ scrofulousPoints[56] = project(v3)
              /\ currentScrof = v3

\* the composite drawn for the largest error: its legs do not close, the
\* sequence ends away from the start vector
C22_Witness ==
    /\ drawnError = 20
    /\ Len(scrofulousPoints) = 56
    /\ currentScrof # startVec
    /\ scrofulousPoints[16] # scrofulousPoints[1]
    /\ scrofulousPoints[41] # scrofulousPoints[16]

\* C23: after any sequence of error changes the drawn single-pulse and
\* composite trajectories are those generated from the current error alone:
\* the svg holds the two paths of the last regeneration and no other, and
\* the point arrays hold no point of an earlier error
C23_RegeneratedWholesale ==
    (drawnError # NotDrawn /\ ~effectPending) =>
        /\ simplePoints = SimplePulse(errorRate).points
        /\ scrofulousPoints = ScrofulousPulse(errorRate).points
        /\ svgPaths = <<simplePoints, scrofulousPoints>>

\* the drawing after the slider has left 0 and the effect has run again
C23_Witness ==
    /\ ~effectPending /\ errorRate # 0
    /\ Len(svgPaths) = 2
    /\ svgPaths[1] # SimplePulse(0).points

\* C24: with noise amplitude 0 generateDecayData is reproducible: whatever
\* Math.random() returns, a call with the same inputs returns the same
\* sample list (a re-render with the same arguments leaves the data as it
\* was), and at every stride sample the measured value is the fit value
C24_NoiseFreeReproducible ==
    /\ [](decayArgs # None /\ decayArgs.noise = 0 =>
            \A j \in 1 .. Len(decayData) :
                IsMeasured(j - 1) => decayData[j].measured = Some(decayData[j].fit))
    /\ [][(decayArgs # None /\ decayArgs.noise = 0 /\ decayArgs' = decayArgs)
             => decayData' = decayData]_vars

\* a noise-free list whose stride sample 5 is measured, on the decayed part
\* of the curve
C24_Witness ==
    /\ decayArgs # None /\ decayArgs.noise = 0
    /\ Len(decayData) = decayArgs.points + 1
    /\ decayData[6].measured = Some(decayData[6].fit)
    /\ decayData[6].fit < decayData[1].fit

\* C25: every frame, the first of a run included, leaves the time marker at
\* horizontal coordinate t * 700 of the waveform graph, t that frame's t
C25_MarkerAtCurrentTime ==
    frameNo >= 1 =>
        /\ markerExists
        /\ MarkerAt(markerX) * totalDuration = elapsed * 700 * MarkerDen

\* the first frame of a run: the marker was appended and its x1/x2 not set
C25_Witness ==
    /\ frameNo = 1 /\ markerExists /\ markerX = -1 /\ elapsed = 0
    /\ firstTs # 0

\* C26: in every frame slmPower + aodPower = 1: what one trap is handed is
\* what the other gives up, in all four phases and at every phase boundary
C26_PowersSumToOne ==
    frameNo >= 1 => slmPower + aodPower = RampMs

\* a frame inside a ramp, both traps partly on
C26_Witness ==
    /\ frameNo >= 1 /\ TIn(75, 90)
    /\ 0 < slmPower /\ slmPower < RampMs
    /\ 0 < aodPower /\ aodPower < RampMs

\* C27 (as claimed): in every frame the particle is in a trap that is on:
\* x is the position of the AOD well while aodPower > 0, or of the SLM well
\* while slmPower > 0.  In the Reset phase aodPower = 0, the particle is at
\* startX and the SLM well, the only trap on, is at endX (t > 0.5).
C27_ParticleInActiveTrap ==
    frameNo >= 1 =>
        \/ aodPower > 0 /\ x = aodX
        \/ slmPower > 0 /\ x = slmX * XDen

\* the last message
LastMessage == messages[Len(messages)]

\* C28: at most one model request is in flight at any time: while
\* isLoading, no step (so no send attempt, by click or Enter) appends a
\* message or starts a request; and with an empty or whitespace-only input
\* and nothing loading, no step changes the messages, the requests or
\* isLoading
C28_OneRequestInFlight ==
    /\ [](Len(requests) <= 1)
    /\ [](isLoading <=> requests # <<>>)
    /\ [][isLoading => (Len(messages') = Len(messages)
                          /\ Len(requests') <= Len(requests))]_vars
    /\ [][(~isLoading /\ Trim(input) = <<>>)
             => (messages' = messages /\ requests' = requests
                   /\ isLoading' = isLoading)]_vars

\* a send attempted with text typed while the response of the first send
\* was streaming: it returned at the guard
C28_Witness ==
    /\ isLoading /\ Len(requests) = 1 /\ requests[1].phase = "streaming"
    /\ Trim(input) # <<>>
    /\ lastSend = "returned"
    /\ Len(messages) = 3

\* C29: every accepted send eventually returns isLoading to false, on each
\* outcome (key missing, the remote call failing at any point, the stream
\* completing); on the two failure outcomes the error text has been
\* delivered into the model message
C29_LoadingEnds ==
    /\ isLoading ~> ~isLoading
    /\ [](\A i \in 1 .. Len(requests) :
            /\ requests[i].outcome = "nokey"
                  => (requests[i].phase = "returned"
                        /\ LastMessage.text = <<KeyMissing>>)
            /\ requests[i].outcome = "failed"
                  => (requests[i].phase = "returned"
                        /\ LastMessage.role = "model"
                        /\ LastMessage.text # <<>>
                        /\ LastMessage.text[Len(LastMessage.text)] = ConnectionError))

\* a stream that failed after a chunk has been resumed from: the message
\* holds the chunk and the error text, and nothing is loading
C29_Witness ==
    /\ ~isLoading /\ requests = <<>> /\ Len(messages) = 3
    /\ Len(LastMessage.text) = 2
    /\ LastMessage.text[1] \in ChunkTexts
    /\ LastMessage.text[2] = ConnectionError

\* C30: an accepted send appends two messages, the user's and a model
\* placeholder; a chunk changes the text of the last message only, to what
\* the request has received so far in arrival order; no message before the
\* last is ever changed, none removed or reordered
C30_OnlyPlaceholderChanges ==
    /\ [][\/ /\ Len(messages') = Len(messages)
             /\ \A j \in 1 .. Len(messages) - 1 : messages'[j] = messages[j]
             /\ LastMessage.role = messages'[Len(messages)].role
             /\ messages' # messages =>
                   /\ LastMessage.role = "model"
                   /\ \E i \in 1 .. Len(requests') :
                        /\ messages'[Len(messages)].text = requests'[i].fullResponse
                        /\ Len(requests'[i].fullResponse)
                              = Len(requests[i].fullResponse) + 1
                        /\ SubSeq(requests'[i].fullResponse, 1,
                                  Len(requests[i].fullResponse))
                              = requests[i].fullResponse
          \/ /\ Len(messages') = Len(messages) + 2
             /\ \A j \in 1 .. Len(messages) : messages'[j] = messages[j]
             /\ messages'[Len(messages) + 1] = [role |-> "user", text |-> input]
             /\ messages'[Len(messages) + 2].role = "model"
             /\ messages'[Len(messages) + 2].text \in {<<>>, <<KeyMissing>>}]_vars
    /\ [](isLoading => LastMessage.role = "model"
                         /\ LastMessage.text = requests[1].fullResponse)

\* two chunks of the second send have arrived: its placeholder holds both,
\* the first exchange is as it was
C30_Witness ==
    /\ Len(messages) = 5 /\ isLoading
    /\ Len(LastMessage.text) = 2
    /\ LastMessage.text[1] # LastMessage.text[2]
    /\ messages[2].role = "user" /\ messages[4].role = "user"
    /\ messages[3].text # <<>>

=============================================================================
